---- MODULE Spec2Model ----
(***************************************************************************)
(* Model of package sakura (sakura.go): BlockSize.Value, HashingMode, the  *)
(* Hop interfaces and the Encoder entry points Final and Inner.            *)
(***************************************************************************)
EXTENDS Integers, Sequences, FiniteSets

VARIABLES mode, cache, consumed, calls, bs, bsValue, bsPc

vars == <<mode, cache, consumed, calls, bs, bsValue, bsPc>>

(* ----------------------------- bounds ---------------------------------- *)
MaxCalls == 2
MaxCached == 1
MaxConsumed == 1

(* ------------------------- program constants --------------------------- *)
MaxUint8 == 255
IntBits == 64

(* ------------------------------ BlockSize ------------------------------ *)
\* type BlockSize struct { Mantissa uint8; Exponent uint8 }
BlockSize == [Mantissa : 0..MaxUint8, Exponent : 0..MaxUint8]

ZeroBlockSize == [Mantissa |-> 0, Exponent |-> 0]

\* A Go int is kept as IntBits/LimbBits limbs of LimbBits bits each, least
\* significant limb first, in two's complement.
LimbBits == IntBits \div 4
NumLimbs == IntBits \div LimbBits
LimbBase == 2^LimbBits
IntZero == [i \in 1..NumLimbs |-> 0]
IntOne == [i \in 1..NumLimbs |-> IF i = 1 THEN 1 ELSE 0]

\* 1 << e on an int: a shift count of IntBits or more gives 0.
Shl1(e) ==
  [i \in 1..NumLimbs |->
     IF e < IntBits /\ (e \div LimbBits) + 1 = i THEN 2^(e % LimbBits) ELSE 0]

\* Carry into limb i of x * k (k a small non-negative int).
RECURSIVE MulCarry(_, _, _)
MulCarry(x, k, i) ==
  IF i = 1 THEN 0 ELSE (x[i-1] * k + MulCarry(x, k, i-1)) \div LimbBase

\* x * k on an int, wrapping modulo 2^IntBits.
MulWrap(x, k) ==
  [i \in 1..NumLimbs |-> (x[i] * k + MulCarry(x, k, i)) % LimbBase]

\* Value with a shift count taken modulo the width of int.
ValueShiftMasked(b) ==
  MulWrap(Shl1(b.Exponent % IntBits), 2 * b.Mantissa + 1)

\* func (bs BlockSize) Value() int:
\*   1 << bs.Exponent * (2*int(bs.Mantissa) + 1)
\* << and * have the same precedence in Go and associate to the left.
Value(b) == MulWrap(Shl1(b.Exponent), 2 * b.Mantissa + 1)

\* Readings of an int result.
IntIsZero(x) == \A i \in 1..NumLimbs : x[i] = 0
IntIsNegative(x) == x[NumLimbs] >= LimbBase \div 2
IntIsPositive(x) == ~IntIsZero(x) /\ ~IntIsNegative(x)
IntBitSet(x) ==
  {LimbBits * (i - 1) + j : i \in 1..NumLimbs, j \in 0..(LimbBits - 1)}
    \cap {p \in 0..(IntBits - 1) :
            (x[(p \div LimbBits) + 1] \div 2^(p % LimbBits)) % 2 = 1}

(* --------------------------------- hops -------------------------------- *)
\* A fixed forest of hops, owned by the caller.  Hops 1, 2 and 4 are message
\* hops, hops 3, 5 and 6 are chaining hops:
\*    3 = [1:"ab", 2:"cd"]      6 = [5 = [4:"abcd"]]
Hops == 1..6
MessageHops == {1, 2, 4}
ChainingHops == Hops \ MessageHops

\* MessageHop (io.Reader): the bytes the reader yields.
Message ==
  [h \in MessageHops |->
     CASE h = 1 -> <<97, 98>>
       [] h = 2 -> <<99, 100>>
       [] h = 4 -> <<97, 98, 99, 100>>]

\* ChainingHop: Child(i) is Children[h][i+1].
Children ==
  [h \in ChainingHops |->
     CASE h = 3 -> <<1, 2>>
       [] h = 5 -> <<4>>
       [] h = 6 -> <<5>>]

\* ChainingHop.Degree
Degree(h) == Len(Children[h])

\* The message hops below a hop, and all the message bytes below it in order.
RECURSIVE Leaves(_)
Leaves(h) ==
  IF h \in MessageHops THEN <<h>>
  ELSE IF Degree(h) = 1 THEN Leaves(Children[h][1])
  ELSE Leaves(Children[h][1]) \o Leaves(Children[h][2])

RECURSIVE TotalBytes(_)
TotalBytes(h) ==
  IF h \in MessageHops THEN Message[h]
  ELSE IF Degree(h) = 1 THEN TotalBytes(Children[h][1])
  ELSE TotalBytes(Children[h][1]) \o TotalBytes(Children[h][2])

Range(s) == {s[i] : i \in 1..Len(s)}

(* ------------------------------- digests ------------------------------- *)
\* A []byte returned as hash: nil, or the output of the base hash, which is
\* kept as its input so that the base hash is injective.
NilHash == [isNil |-> TRUE, pre |-> <<>>]
Sum(bytes) == [isNil |-> FALSE, pre |-> bytes]

\* error values
NoErr == "nil"
ErrNotImplemented == "not implemented"

\* Hop.ChainingValue of a hop that keeps what it is given.
ChainingValue(h) == cache[h]

\* Hop.SetChainingValue of a hop that keeps what it is given: the cache after
\* the calls in sets, a set of <<hop, value>>.
SetChainingValue(c, sets) ==
  [h \in Hops |->
     IF \E s \in sets : s[1] = h
     THEN (CHOOSE s \in sets : s[1] = h)[2]
     ELSE c[h]]

(* ------------------------------- Encoder ------------------------------- *)
Alignments == {0, 8}
Interleaves == {ZeroBlockSize, [Mantissa |-> 0, Exponent |-> 1]}

\* type HashingMode (the Hasher is taken to yield working hashes).
HashingMode ==
  [Kangaroo : BOOLEAN, Alignment : Alignments, Interleave : Interleaves]

\* What one call of an entry point does is a record of the values it returns,
\* the message hops it reads and the SetChainingValue calls it makes.

\* Final that also stores a digest in the chaining value of its hop.
FinalCaching(hop) ==
  [hash |-> NilHash, err |-> ErrNotImplemented, reads |-> {},
   sets |-> {<<hop, Sum(TotalBytes(hop) \o <<1>>)>>}]

\* func (e *Encoder) Final(hop Hop) (hash []byte, err error)
FinalBody(hop) ==
  [hash |-> NilHash, err |-> ErrNotImplemented, reads |-> {}, sets |-> {}]

\* Inner that returns a digest together with its error.
InnerPartial(hop) ==
  [hash |-> Sum(<<>>), err |-> ErrNotImplemented, reads |-> {}, sets |-> {}]

\* func (e *Encoder) Inner(hop Hop) (hash []byte, err error)
InnerBody(hop) ==
  [hash |-> NilHash, err |-> ErrNotImplemented, reads |-> {}, sets |-> {}]

\* One call of an entry point, entered in the log of calls with what the hop's
\* cache slot held before (cv0) and after (cv) and which message hops had
\* already been read (read0).
Call(op, hop, out) ==
  /\ Len(calls) < MaxCalls
  /\ cache' = SetChainingValue(cache, out.sets)
  /\ consumed' = consumed \cup out.reads
  /\ calls' = Append(calls,
       [op |-> op, hop |-> hop, hash |-> out.hash, err |-> out.err,
        reads |-> out.reads, sets |-> out.sets,
        cv0 |-> cache[hop], cv |-> cache'[hop], read0 |-> consumed])
  /\ UNCHANGED <<mode, bs, bsValue, bsPc>>

Final(hop) == Call("Final", hop, FinalBody(hop))

Inner(hop) == Call("Inner", hop, InnerBody(hop))

\* A chaining value some earlier computation left in a hop's cache slot.
Preset(h) == Sum(<<0, h>>)

\* func New(mode HashingMode) *Encoder, over a forest some of whose cache
\* slots are filled and some of whose message hops have been read already.
Init ==
  /\ mode \in HashingMode
  /\ \E C \in SUBSET Hops :
       /\ Cardinality(C) <= MaxCached
       /\ cache = [h \in Hops |-> IF h \in C THEN Preset(h) ELSE NilHash]
  /\ consumed \in {K \in SUBSET MessageHops : Cardinality(K) <= MaxConsumed}
  /\ calls = <<>>
  /\ bs = ZeroBlockSize
  /\ bsValue = IntZero
  /\ bsPc = "idle"

Next ==
  \/ \E hop \in Hops : Final(hop)
  \/ \E hop \in Hops : Inner(hop)

Spec == Init /\ [][Next]_vars

(* -------------------- BlockSize.Value on its own ----------------------- *)
InitValue ==
  /\ bs \in BlockSize
  /\ bsValue = IntZero
  /\ bsPc = "call"
  /\ mode = [Kangaroo |-> FALSE, Alignment |-> 0, Interleave |-> ZeroBlockSize]
  /\ cache = [h \in Hops |-> NilHash]
  /\ consumed = {}
  /\ calls = <<>>

CallValue ==
  /\ bsPc = "call"
  /\ bsValue' = Value(bs)
  /\ bsPc' = "done"
  /\ UNCHANGED <<bs, mode, cache, consumed, calls>>

NextValue == CallValue

SpecValue == InitValue /\ [][NextValue]_vars

(* ------------------------------ properties ----------------------------- *)
Calls == 1..Len(calls)

\* No message hop below the hop of call i had been read when call i began.
Readable(i) == Range(Leaves(calls[i].hop)) \cap calls[i].read0 = {}

\* The shape of the tree below a hop, in preorder: 0 for a message hop,
\* degree + 1 for a chaining hop.
RECURSIVE Shape(_)
Shape(h) ==
  IF h \in MessageHops THEN <<0>>
  ELSE IF Degree(h) = 1 THEN <<2>> \o Shape(Children[h][1])
  ELSE <<3>> \o Shape(Children[h][1]) \o Shape(Children[h][2])

\* The bits of 2^Exponent * (2*Mantissa + 1) that are 1, as bit positions.
MathBits(b) ==
  {b.Exponent + j : j \in {k \in 0..8 : ((2 * b.Mantissa + 1) \div 2^k) % 2 = 1}}

\* C1: on a tree whose message hops are all readable, with a working hash,
\* Inner and Final return a digest and a nil error; an error is returned only
\* when a read (or the hash) fails.
C1_SucceedsOnWellFormed ==
  \A i \in Calls :
    Readable(i) => calls[i].err = NoErr /\ ~calls[i].hash.isNil

\* C2: with kangaroo off, alignment 0 and no interleaving, Final of a chaining
\* hop whose children are uncached message hops is the base hash of the
\* children's bytes, then the degree, then the final marker 1.
C2_FinalOfFlatNode ==
  \A i \in Calls :
    ( /\ calls[i].op = "Final"
      /\ calls[i].hop \in ChainingHops
      /\ Range(Children[calls[i].hop]) \subseteq MessageHops
      /\ \A c \in Range(Children[calls[i].hop]) : ChainingValue(c) = NilHash
      /\ Readable(i)
      /\ mode = [Kangaroo |-> FALSE, Alignment |-> 0,
                 Interleave |-> ZeroBlockSize] )
    => calls[i].hash =
         Sum(TotalBytes(calls[i].hop) \o <<Degree(calls[i].hop), 1>>)

\* C3: for a chaining hop with a child or a non-empty message hop, the output
\* of Final differs from the output of Inner.
C3_FinalDiffersFromInner ==
  \A i, j \in Calls :
    ( /\ calls[i].op = "Inner"
      /\ calls[j].op = "Final"
      /\ calls[i].hop = calls[j].hop
      /\ Len(TotalBytes(calls[i].hop)) > 0 )
    => calls[i].hash # calls[j].hash

\* C4: Final of two trees of different shape over the same message bytes
\* gives different digests.
C4_ShapeSensitive ==
  \A i, j \in Calls :
    ( /\ calls[i].op = "Final"
      /\ calls[j].op = "Final"
      /\ Shape(calls[i].hop) # Shape(calls[j].hop)
      /\ TotalBytes(calls[i].hop) = TotalBytes(calls[j].hop) )
    => calls[i].hash # calls[j].hash

\* C5: every value passed to a hop's SetChainingValue is the value Inner
\* computes for that hop, and Final never sets the chaining value of its own
\* hop, whose cache slot it leaves as it was.
C5_FinalLeavesCache ==
  \A i \in Calls :
    /\ \A s \in calls[i].sets : s[2] = InnerBody(s[1]).hash
    /\ calls[i].op = "Final" =>
         /\ calls[i].cv = calls[i].cv0
         /\ \A s \in calls[i].sets : s[1] # calls[i].hop

W_C5_FinalOnCachedHop ==
  \E i \in Calls :
    /\ calls[i].op = "Final"
    /\ calls[i].cv0 = Preset(calls[i].hop)
    /\ ChainingValue(calls[i].hop) = Preset(calls[i].hop)

C7_InnerTwice ==
  ( /\ Len(calls) >= 2
    /\ calls[1].op = "Inner"
    /\ calls[2].op = "Inner"
    /\ calls[1].hop = calls[2].hop
    /\ calls[1].hop \in ChainingHops
    /\ Readable(1) )
  => /\ ~calls[1].hash.isNil
     /\ calls[1].hash = calls[2].hash
     /\ calls[1].cv = calls[1].hash =>
          calls[2].reads = {} /\ calls[2].err = NoErr

\* C8: a call that returns a non-nil error returns a nil digest.
C8_NoPartialDigest ==
  \A i \in Calls : calls[i].err # NoErr => calls[i].hash = NilHash

W_C8_BothFailed ==
  \E i, j \in Calls :
    /\ calls[i].op = "Inner"
    /\ calls[j].op = "Final"
    /\ calls[i].err # NoErr
    /\ calls[j].err # NoErr

\* C9: Value returns exactly 2^Exponent * (2*Mantissa + 1), a positive odd
\* multiple of a power of two, for every Mantissa and Exponent.
C9_ValueIsExact ==
  bsPc = "done" =>
    /\ IntIsPositive(bsValue)
    /\ IntBitSet(bsValue) = MathBits(bs)

====
